---- MODULE Spec2Model ----
(***************************************************************************)
(* Model of mkwutil/lib/slices.py: the slice table (SliceTable), its       *)
(* regions (Slice), section assignment and the object reconciler.          *)
(*                                                                         *)
(* Python objects have identity: a table's list holds references to Slice  *)
(* objects, and several methods mutate a Slice in place.  The model keeps  *)
(* a heap (object id -> fields) and lets every list hold object ids, so    *)
(* that two lists holding the same object see each other's mutations.      *)
(***************************************************************************)
EXTENDS Integers, Sequences, FiniteSets, TLC

VARIABLES
    heap,      \* object id -> Slice fields
    table,     \* the SliceTable under test: [start, stop, slices]
    derived,   \* a second SliceTable made by slice() / copy(), if any
    origin,    \* how `derived` was made: "none", "slice", "copy"
    last,      \* the last call and its outcome
    hist,      \* facts about the calls made so far
    result,    \* what the last object_slices call returned
    file,      \* the CSV file: its header and rows
    read       \* what iterating a SlicesCSVReader over the file yielded

vars == <<heap, table, derived, origin, last, hist, result, file, read>>

---------------------------------------------------------------------------
(* Bounds of the model *)

TableStart == 1
TableSize == 3
TableStop == TableStart + TableSize

\* addresses a caller may pass; one below and one above the table's range
Addrs == (TableStart - 1)..(TableStop + 1)

Names == {"a", "b"}

---------------------------------------------------------------------------
(* Slice *)

None == "None"

\* Slice(start, stop, name, section, tags)
TaggedSlice(start, stop, name, section, tags) ==
    [start |-> start, stop |-> stop, name |-> name, section |-> section,
     tags |-> tags]

\* Slice(start, stop, name, section) : tags defaults to the empty set
Slice(start, stop, name, section) == TaggedSlice(start, stop, name, section, {})

\* Slice.__contains__ for an int key
contains_addr(s, key) == s.start <= key /\ key < s.stop

\* contains_slice comparing the starts only
contains_slice_start_only(s, key) == s.start <= key.start

\* Slice.__contains__ for a Slice key
contains_slice(s, key) == s.start <= key.start /\ s.stop >= key.stop

\* Slice.__len__ ; the assertion start <= stop is checked by the callers
len(s) == s.stop - s.start

len_ok(s) == s.start <= s.stop

has_name(s) == s.name # None

Max(a, b) == IF a > b THEN a ELSE b
Min(a, b) == IF a < b THEN a ELSE b

---------------------------------------------------------------------------
(* The heap and Python lists (0-based indexes, negative indexes allowed) *)

\* a new object with the given fields; the heap is the sequence of all objects
\* made so far and an object's id is its position in it
Alloc(h, s) == [heap |-> Append(h, s), id |-> Len(h) + 1]

\* copy(slice), Slice.__copy__ : a new object with the same fields
copy(h, id) == Alloc(h, h[id])

\* sorted(split_addrs)
RECURSIVE sorted(_)
sorted(addrs) ==
    IF addrs = <<>> THEN <<>>
    ELSE LET rest == sorted(SubSeq(addrs, 1, Len(addrs) - 1))
             x == addrs[Len(addrs)]
             p == Cardinality({k \in 1..Len(rest) : rest[k] <= x})
         IN SubSeq(rest, 1, p) \o <<x>> \o SubSeq(rest, p + 1, Len(rest))

\* the for loop of Slice.split over the addresses left; start is the loop's
\* variable, out the ids of the slices yielded so far
\* status: "assert" where len(sub_slice) fails on a negative length
RECURSIVE split_loop(_, _, _, _, _)
split_loop(h, id, addrs, start, out) ==
    IF addrs = <<>> THEN [status |-> "ok", heap |-> h, out |-> out]
    ELSE IF Head(addrs) < h[id].start \/ Head(addrs) > h[id].stop
    THEN split_loop(h, id, Tail(addrs), start, out)
    ELSE LET c == copy(h, id)
             h1 == [c.heap EXCEPT ![c.id].start = start, ![c.id].stop = Head(addrs)]
         IN IF ~contains_slice(h1[id], h1[c.id])
            THEN split_loop(h1, id, Tail(addrs), Head(addrs), out)
            ELSE IF ~len_ok(h1[c.id])
            THEN [status |-> "assert", heap |-> h1, out |-> out]
            ELSE split_loop(h1, id, Tail(addrs), Head(addrs),
                            IF len(h1[c.id]) > 0 THEN Append(out, c.id) ELSE out)

\* split that takes the addresses in the order given
split_unsorted(h, id, addrs) ==
    split_loop(h, id, addrs \o <<h[id].stop>>, h[id].start, <<>>)

\* list(Slice.split(split_addrs)) on the slice id
split(h, id, addrs) ==
    split_loop(h, id, sorted(addrs) \o <<h[id].stop>>, h[id].start, <<>>)

PyIndex(n, i) == IF i < 0 THEN i + n ELSE i

ListGet(sl, i) == sl[PyIndex(Len(sl), i) + 1]

ListSet(sl, i, x) == [sl EXCEPT ![PyIndex(Len(sl), i) + 1] = x]

ListInsert(sl, i, x) ==
    LET n == Len(sl)
        p == Max(0, Min(n, PyIndex(n, i)))
    IN SubSeq(sl, 1, p) \o <<x>> \o SubSeq(sl, p + 1, n)

ListPop(sl, i) ==
    LET p == PyIndex(Len(sl), i)
    IN SubSeq(sl, 1, p) \o SubSeq(sl, p + 2, Len(sl))

\* the list of a table by value
View(h, sl) == [k \in 1..Len(sl) |-> h[sl[k]]]

---------------------------------------------------------------------------
(* SliceTable *)

\* SliceTable.__init__ : one gap over the whole range
NewTable(h, start, stop) ==
    LET g == Alloc(h, Slice(start, stop, None, None))
    IN [heap |-> g.heap,
        table |-> [start |-> start, stop |-> stop, slices |-> <<g.id>>]]

\* SliceTable.__contains__
in_table(T, s) == T.start <= s.start /\ T.stop >= s.stop

\* bisect with bisect_left's comparison: stops before an equal start
RECURSIVE bisect_as_left(_, _, _, _, _)
bisect_as_left(h, sl, x, lo, hi) ==
    IF lo < hi
    THEN LET mid == (lo + hi) \div 2
         IN IF x.start > h[sl[mid + 1]].start
            THEN bisect_as_left(h, sl, x, mid + 1, hi)
            ELSE bisect_as_left(h, sl, x, lo, mid)
    ELSE lo

\* bisect.bisect (bisect_right); x < a[mid] falls back to a[mid].__gt__(x)
RECURSIVE bisect(_, _, _, _, _)
bisect(h, sl, x, lo, hi) ==
    IF lo < hi
    THEN LET mid == (lo + hi) \div 2
         IN IF h[sl[mid + 1]].start > x.start
            THEN bisect(h, sl, x, lo, mid)
            ELSE bisect(h, sl, x, mid + 1, hi)
    ELSE lo

\* SliceTable.find : index of the first slice holding addr, or -1 for None
find(h, sl, addr) ==
    IF \E k \in 1..Len(sl) : contains_addr(h[sl[k]], addr)
    THEN (CHOOSE k \in 1..Len(sl) :
              /\ contains_addr(h[sl[k]], addr)
              /\ \A j \in 1..(k - 1) : ~contains_addr(h[sl[j]], addr)) - 1
    ELSE -1

\* bisect.bisect_left; a[mid] < x falls back to x.__gt__(a[mid])
RECURSIVE bisect_left(_, _, _, _, _)
bisect_left(h, sl, x, lo, hi) ==
    IF lo < hi
    THEN LET mid == (lo + hi) \div 2
         IN IF x.start > h[sl[mid + 1]].start
            THEN bisect_left(h, sl, x, mid + 1, hi)
            ELSE bisect_left(h, sl, x, lo, mid)
    ELSE lo

\* SliceTable.find_parent : the id of the slice returned, or -1 for None
find_parent(h, T, x) ==
    LET i == bisect_left(h, T.slices, x, 0, Len(T.slices))
    IN IF i < Len(T.slices) THEN ListGet(T.slices, i) ELSE -1

\* SliceTable.add ; r is the id of the Slice passed in
add(h, T, r) ==
    LET s == h[r]
        fail == [ok |-> FALSE, heap |-> h, slices |-> T.slices]
    IN IF ~(len_ok(s) /\ len(s) > 0) THEN fail
       ELSE IF ~in_table(T, s) THEN fail
       ELSE
         LET i == bisect(h, T.slices, s, 0, Len(T.slices)) - 1
             target == h[ListGet(T.slices, i)]
         IN IF ~(target.name = None /\ contains_slice(target, s)) THEN fail
            ELSE
              LET left == s.start > target.start
                  lgap == Alloc(h, Slice(target.start, s.start, None, None))
                  h1 == IF left THEN lgap.heap ELSE h
                  sl1 == IF left THEN ListInsert(T.slices, i, lgap.id)
                         ELSE T.slices
                  i1 == IF left THEN i + 1 ELSE i
                  sl2 == ListSet(sl1, i1, r)
                  right == s.stop < target.stop
                  rgap == Alloc(h1, Slice(s.stop, target.stop, None, None))
                  h2 == IF right THEN rgap.heap ELSE h1
                  sl3 == IF right THEN ListInsert(sl2, i1 + 1, rgap.id) ELSE sl2
              IN [ok |-> TRUE, heap |-> h2, slices |-> sl3]

\* __merge_left without the test that the left neighbour is a gap
merge_left_any_neighbour(h, sl, idx) ==
    IF has_name(h[ListGet(sl, idx)])
    THEN [ok |-> FALSE, heap |-> h, slices |-> sl, idx |-> idx]
    ELSE IF idx > 0
         THEN [ok |-> TRUE,
               heap |-> [h EXCEPT ![ListGet(sl, idx - 1)].stop =
                                       h[ListGet(sl, idx)].stop],
               slices |-> ListPop(sl, idx),
               idx |-> idx - 1]
         ELSE [ok |-> TRUE, heap |-> h, slices |-> sl, idx |-> idx]

\* SliceTable.__merge_left : the result carries the index the code returns
__merge_left(h, sl, idx) ==
    IF has_name(h[ListGet(sl, idx)])
    THEN [ok |-> FALSE, heap |-> h, slices |-> sl, idx |-> idx]
    ELSE IF idx > 0 /\ ~has_name(h[ListGet(sl, idx - 1)])
         THEN [ok |-> TRUE,
               heap |-> [h EXCEPT ![ListGet(sl, idx - 1)].stop =
                                       h[ListGet(sl, idx)].stop],
               slices |-> ListPop(sl, idx),
               idx |-> idx - 1]
         ELSE [ok |-> TRUE, heap |-> h, slices |-> sl, idx |-> idx]

\* __merge_right that drops the gap without widening the right neighbour
merge_right_no_widen(h, sl, idx) ==
    IF has_name(h[ListGet(sl, idx)])
    THEN [ok |-> FALSE, heap |-> h, slices |-> sl, idx |-> idx]
    ELSE IF idx + 1 < Len(sl) /\ ~has_name(h[ListGet(sl, idx + 1)])
         THEN [ok |-> TRUE, heap |-> h, slices |-> ListPop(sl, idx), idx |-> idx]
         ELSE [ok |-> TRUE, heap |-> h, slices |-> sl, idx |-> idx]

\* SliceTable.__merge_right
__merge_right(h, sl, idx) ==
    IF has_name(h[ListGet(sl, idx)])
    THEN [ok |-> FALSE, heap |-> h, slices |-> sl, idx |-> idx]
    ELSE IF idx + 1 < Len(sl) /\ ~has_name(h[ListGet(sl, idx + 1)])
         THEN [ok |-> TRUE,
               heap |-> [h EXCEPT ![ListGet(sl, idx + 1)].start =
                                       h[ListGet(sl, idx)].start],
               slices |-> ListPop(sl, idx),
               idx |-> idx]
         ELSE [ok |-> TRUE, heap |-> h, slices |-> sl, idx |-> idx]

\* SliceTable.__remove_slice : makes a gap of [new_start, new_stop) in the
\* slice at idx and returns the index of the gap
__remove_slice(h, sl, idx, new_start, new_stop) ==
    LET tid == ListGet(sl, idx)
        target == h[tid]
    IN IF ~(new_start < new_stop /\ target.start <= new_start
                                 /\ target.stop >= new_stop)
       THEN [ok |-> FALSE, heap |-> h, slices |-> sl, idx |-> idx]
       ELSE IF target.start = new_start /\ target.stop = new_stop
       THEN \* remove entire slice
            LET c == Alloc(h, [target EXCEPT !.name = None])
                m == __merge_left(c.heap, ListSet(sl, idx, c.id), idx)
            IN __merge_right(m.heap, m.slices, m.idx)
       ELSE IF target.start = new_start
       THEN \* remove left part
            LET gap == Alloc(h, [target EXCEPT !.name = None, !.stop = new_stop])
                part == Alloc(gap.heap, [target EXCEPT !.start = new_stop])
                sl1 == ListInsert(ListSet(sl, idx, gap.id), idx + 1, part.id)
            IN __merge_left(part.heap, sl1, idx)
       ELSE IF target.stop = new_stop
       THEN \* remove right part
            LET part == Alloc(h, [target EXCEPT !.stop = new_start])
                gap == Alloc(part.heap,
                             [target EXCEPT !.name = None, !.start = new_start])
                sl1 == ListInsert(ListSet(sl, idx, part.id), idx + 1, gap.id)
            IN __merge_right(gap.heap, sl1, idx + 1)
       ELSE \* remove middle part
            LET part_l == Alloc(h, [target EXCEPT !.stop = new_start])
                gap == Alloc(part_l.heap,
                             [target EXCEPT !.name = None, !.start = new_start,
                                            !.stop = new_stop])
                part_r == Alloc(gap.heap, [target EXCEPT !.start = new_stop])
                sl1 == ListInsert(ListInsert(ListSet(sl, idx, part_l.id),
                                             idx + 1, gap.id),
                                  idx + 2, part_r.id)
            IN [ok |-> TRUE, heap |-> part_r.heap, slices |-> sl1,
                idx |-> idx + 1]

\* the while loop of SliceTable.__remove
RECURSIVE remove_loop(_, _, _, _, _)
remove_loop(h, sl, idx, start, stop) ==
    IF idx < Len(sl) /\ h[ListGet(sl, idx)].start < stop
    THEN LET target == h[ListGet(sl, idx)]
             next_stop == Min(stop, target.stop)
             r == __remove_slice(h, sl, idx, Max(start, target.start), next_stop)
         IN IF r.ok
            THEN remove_loop(r.heap, r.slices, r.idx + 1, start, stop)
            ELSE [ok |-> FALSE, heap |-> r.heap, slices |-> r.slices]
    ELSE [ok |-> TRUE, heap |-> h, slices |-> sl]

\* SliceTable.__remove (SliceTable.remove passes its range on unchanged);
\* find() returning None makes the loop condition raise a TypeError
__remove(h, T, start, stop) ==
    LET start1 == Max(start, T.start)
        stop1 == Min(stop, T.stop)
        idx == find(h, T.slices, start1)
    IN IF idx = -1
       THEN [ok |-> FALSE, heap |-> h, slices |-> T.slices]
       ELSE remove_loop(h, T.slices, idx, start1, stop1)

\* the for loop of SliceTable.slice over self.slices[k:], adding to N
RECURSIVE slice_loop(_, _, _, _, _, _)
slice_loop(h, sl, k, N, start, stop) ==
    IF k >= Len(sl) THEN [ok |-> TRUE, heap |-> h, table |-> N]
    ELSE
      LET c1 == IF h[ListGet(sl, k)].start < start
                THEN LET c == copy(h, ListGet(sl, k))
                     IN [heap |-> [c.heap EXCEPT ![c.id].start = start],
                         id |-> c.id]
                ELSE [heap |-> h, id |-> ListGet(sl, k)]
      IN IF c1.heap[c1.id].start >= stop
         THEN [ok |-> TRUE, heap |-> c1.heap, table |-> N]
         ELSE IF c1.heap[c1.id].stop > stop
         THEN LET c == copy(c1.heap, c1.id)
                  r == add([c.heap EXCEPT ![c.id].stop = stop], N, c.id)
              IN [ok |-> r.ok, heap |-> r.heap,
                  table |-> [N EXCEPT !.slices = r.slices]]
         ELSE LET r == add(c1.heap, N, c1.id)
              IN IF r.ok
                 THEN slice_loop(r.heap, sl, k + 1,
                                 [N EXCEPT !.slices = r.slices], start, stop)
                 ELSE [ok |-> FALSE, heap |-> r.heap, table |-> N]

\* SliceTable.slice : a table for [start, stop) made from the table T
slice(h, T, start, stop) ==
    LET start_idx == find(h, T.slices, start)
    IN IF start_idx = -1 \/ ~(start < stop)
       THEN [ok |-> FALSE, heap |-> h, table |-> T]
       ELSE LET n == NewTable(h, start, stop)
            IN slice_loop(n.heap, T.slices, start_idx, n.table, start, stop)

\* filter that adds every named slice, whatever the filter function says
RECURSIVE filter_all_named(_, _, _, _, _)
filter_all_named(h, sl, F, P, k) ==
    IF k >= Len(sl) THEN [ok |-> TRUE, heap |-> h, table |-> F]
    ELSE IF has_name(h[ListGet(sl, k)])
    THEN LET r == add(h, F, ListGet(sl, k))
         IN IF r.ok
            THEN filter_all_named(r.heap, sl, [F EXCEPT !.slices = r.slices], P, k + 1)
            ELSE [ok |-> FALSE, heap |-> r.heap, table |-> F]
    ELSE filter_all_named(h, sl, F, P, k + 1)

\* the for loop of filter from list index k on; the filter function is given
\* by the set P of the slices it accepts, F is the table being filled
RECURSIVE filter_loop(_, _, _, _, _)
filter_loop(h, sl, F, P, k) ==
    IF k >= Len(sl) THEN [ok |-> TRUE, heap |-> h, table |-> F]
    ELSE IF has_name(h[ListGet(sl, k)]) /\ h[ListGet(sl, k)] \in P
    THEN LET r == add(h, F, ListGet(sl, k))
         IN IF r.ok
            THEN filter_loop(r.heap, sl, [F EXCEPT !.slices = r.slices], P, k + 1)
            ELSE [ok |-> FALSE, heap |-> r.heap, table |-> F]
    ELSE filter_loop(h, sl, F, P, k + 1)

\* SliceTable.filter
filter(h, T, P) ==
    LET n == NewTable(h, T.start, T.stop)
    IN filter_loop(n.heap, T.slices, n.table, P, 0)

\* list(map(copy, self.slices))
RECURSIVE copy_all(_, _, _)
copy_all(h, sl, out) ==
    IF sl = <<>> THEN [heap |-> h, slices |-> out]
    ELSE LET c == copy(h, Head(sl))
         IN copy_all(c.heap, Tail(sl), Append(out, c.id))

\* SliceTable.__copy__
table_copy(h, T) ==
    LET n == NewTable(h, T.start, T.stop)
        c == copy_all(n.heap, T.slices, <<>>)
    IN [ok |-> TRUE, heap |-> c.heap,
        table |-> [n.table EXCEPT !.slices = c.slices]]

---------------------------------------------------------------------------
(* Section assignment *)

Section(start, stop, name) == [start |-> start, stop |-> stop, name |-> name]

\* the while loop left out: the section index stays where it is
next_section_stay(S, i, addr) == i

\* the while loop of set_sections: the first section from i on that stops
\* after addr, or -1 when the assertion i < len(sections) fails
RECURSIVE next_section(_, _, _)
next_section(S, i, addr) ==
    IF S[i + 1].stop <= addr
    THEN IF i + 1 < Len(S) THEN next_section(S, i + 1, addr) ELSE -1
    ELSE i

\* The body of the for loop of set_sections for the slice at list index k.
\* enumerate() and the list iterator advance together, so slice_idx starts as
\* k and the next iteration takes whatever is at k + 1 in the list by then.
\* status: "ok" returned, "warn" returned early, "assert" assertion failed.
RECURSIVE set_sections_loop(_, _, _, _, _)
set_sections_tail(h, sl, S, i, k, slice_idx, id) ==
    LET sec == S[i + 1]
        s == h[id]
    IN IF s.stop > sec.stop
       THEN IF has_name(s)
            THEN [status |-> "assert", heap |-> h, slices |-> sl]
            ELSE IF i + 1 >= Len(S)
            THEN [status |-> "warn", heap |-> h, slices |-> sl]
            ELSE LET h1 == [h EXCEPT ![id].stop = sec.stop]
                 IN IF ~(len_ok(h1[id]) /\ len(h1[id]) > 0)
                    THEN [status |-> "assert", heap |-> h1, slices |-> sl]
                    ELSE LET c == copy(h1, id)
                             h2 == [c.heap EXCEPT ![c.id].start = sec.stop,
                                                  ![c.id].stop = s.stop]
                         IN IF ~(len_ok(h2[c.id]) /\ len(h2[c.id]) > 0)
                            THEN [status |-> "assert", heap |-> h2, slices |-> sl]
                            ELSE set_sections_loop(
                                     [h2 EXCEPT ![id].section = sec.name],
                                     ListInsert(sl, slice_idx + 1, c.id),
                                     S, i, k + 1)
       ELSE set_sections_loop([h EXCEPT ![id].section = sec.name], sl, S, i, k + 1)

set_sections_loop(h, sl, S, i, k) ==
    IF k >= Len(sl) THEN [status |-> "ok", heap |-> h, slices |-> sl]
    ELSE IF ~(i < Len(S)) THEN [status |-> "assert", heap |-> h, slices |-> sl]
    ELSE
      LET id == ListGet(sl, k)
          i1 == next_section(S, i, h[id].start)
      IN IF i1 = -1 THEN [status |-> "assert", heap |-> h, slices |-> sl]
         ELSE IF S[i1 + 1].start > h[id].start
         THEN LET g == copy(h, id)
              IN IF S[i1 + 1].start = h[id].stop
                 THEN set_sections_loop(g.heap, sl, S, i1, k + 1)
                 ELSE LET h1 == [g.heap EXCEPT
                                    ![id].start = S[i1 + 1].start,
                                    ![g.id].stop = S[i1 + 1].start,
                                    ![g.id].name = None,
                                    ![g.id].section = None]
                      IN IF ~(len_ok(h1[g.id]) /\ len(h1[g.id]) > 0)
                         THEN [status |-> "assert", heap |-> h1, slices |-> sl]
                         ELSE set_sections_tail(h1, ListInsert(sl, k, g.id),
                                                S, i1, k, k + 1, id)
         ELSE set_sections_tail(h, sl, S, i1, k, k, id)

\* SliceTable.set_sections
set_sections(h, T, S) == set_sections_loop(h, T.slices, S, 0, 0)

---------------------------------------------------------------------------
(* Object reconciler.  object_slices reads the slices and never changes   *)
(* them, so it is computed on the list by value.                          *)

\* order.index(section), or -1 where Python raises ValueError
order_index(order, section) ==
    IF \E j \in 1..Len(order) : order[j] = section
    THEN (CHOOSE j \in 1..Len(order) :
              order[j] = section /\ \A m \in 1..(j - 1) : order[m] # section) - 1
    ELSE -1

\* the first loop of object_slices: one bucket per section, in list order
RECURSIVE fill_buckets(_, _, _, _)
fill_buckets(v, k, order, buckets) ==
    IF k > Len(v) THEN [ok |-> TRUE, buckets |-> buckets]
    ELSE IF ~has_name(v[k]) THEN fill_buckets(v, k + 1, order, buckets)
    ELSE LET j == order_index(order, v[k].section)
         IN IF j = -1 THEN [ok |-> FALSE, buckets |-> buckets]
            ELSE fill_buckets(v, k + 1, order,
                              [buckets EXCEPT ![j + 1] = Append(@, v[k])])

\* object_sections[name] once the first loop is done
object_sections(v, name) ==
    {v[k].section : k \in {j \in 1..Len(v) : v[j].name = name}}

\* bucket.sort(key=start): a stable sort by start
RECURSIVE sort_by_start(_)
sort_by_start(b) ==
    IF b = <<>> THEN <<>>
    ELSE LET rest == sort_by_start(SubSeq(b, 1, Len(b) - 1))
             x == b[Len(b)]
             p == Cardinality({k \in 1..Len(rest) : rest[k].start <= x.start})
         IN SubSeq(rest, 1, p) \o <<x>> \o SubSeq(rest, p + 1, Len(rest))

\* discover_deps that takes the front of every dependency bucket without
\* comparing its name
RECURSIVE discover_deps_unchecked(_, _, _, _, _, _)
discover_deps_unchecked(buckets, order, sections, i, j, slices) ==
    IF j >= Len(buckets) THEN [status |-> "match", slices |-> slices]
    ELSE IF i = j \/ order[j + 1] \notin sections
    THEN discover_deps_unchecked(buckets, order, sections, i, j + 1, slices)
    ELSE IF buckets[j + 1] = <<>>
    THEN [status |-> "index", slices |-> slices]
    ELSE discover_deps_unchecked(buckets, order, sections, i, j + 1,
                                 Append(slices, buckets[j + 1][1]))

\* the inner loop over the dependency buckets j for the front of bucket i
\* status: "match", "mismatch" (deps_match = False), "index" (IndexError on
\* the front of an empty bucket)
RECURSIVE discover_deps(_, _, _, _, _, _)
discover_deps(buckets, order, sections, i, j, slices) ==
    IF j >= Len(buckets) THEN [status |-> "match", slices |-> slices]
    ELSE IF i = j \/ order[j + 1] \notin sections
    THEN discover_deps(buckets, order, sections, i, j + 1, slices)
    ELSE IF buckets[j + 1] = <<>>
    THEN [status |-> "index", slices |-> slices]
    ELSE IF buckets[j + 1][1].name # buckets[i + 1][1].name
    THEN [status |-> "mismatch", slices |-> slices]
    ELSE discover_deps(buckets, order, sections, i, j + 1,
                       Append(slices, buckets[j + 1][1]))

\* the loop that pops the resolved slices off their buckets; j is kept
\* between slices as in the code
RECURSIVE pop_slices(_, _, _)
pop_slices(buckets, slices, j) ==
    IF slices = <<>> THEN [ok |-> TRUE, buckets |-> buckets]
    ELSE IF j >= Len(buckets) THEN [ok |-> FALSE, buckets |-> buckets]
    ELSE IF buckets[j + 1] = <<>>
            \/ buckets[j + 1][1].section # slices[1].section
    THEN pop_slices(buckets, slices, j + 1)
    ELSE pop_slices([buckets EXCEPT ![j + 1] = Tail(@)], Tail(slices), j)

\* objects.objects[name] = slices : a dict keeps the place of a key it has
DictSet(objects, name, slices) ==
    IF \E k \in 1..Len(objects) : objects[k].name = name
    THEN [k \in 1..Len(objects) |->
              IF objects[k].name = name
              THEN [name |-> name, slices |-> slices] ELSE objects[k]]
    ELSE Append(objects, [name |-> name, slices |-> slices])

\* select_object that gives up when the first bucket tried does not resolve
RECURSIVE select_object_first_only(_, _, _, _)
select_object_first_only(v, buckets, order, i) ==
    IF i >= Len(buckets) THEN [status |-> "mismatch", slices |-> <<>>]
    ELSE IF buckets[i + 1] = <<>>
    THEN select_object_first_only(v, buckets, order, i + 1)
    ELSE discover_deps(buckets, order,
                       object_sections(v, buckets[i + 1][1].name),
                       i, 0, <<buckets[i + 1][1]>>)

\* the for loop over the buckets i that selects the next object
RECURSIVE select_object(_, _, _, _)
select_object(v, buckets, order, i) ==
    IF i >= Len(buckets) THEN [status |-> "mismatch", slices |-> <<>>]
    ELSE IF buckets[i + 1] = <<>> THEN select_object(v, buckets, order, i + 1)
    ELSE LET d == discover_deps(buckets, order,
                                object_sections(v, buckets[i + 1][1].name),
                                i, 0, <<buckets[i + 1][1]>>)
         IN IF d.status = "mismatch"
            THEN select_object(v, buckets, order, i + 1)
            ELSE d

\* the while loop of object_slices
\* status: "ok" returned, "assert" merging failed, "index" IndexError
RECURSIVE merge_buckets(_, _, _, _)
merge_buckets(v, buckets, order, objects) ==
    IF \A j \in 1..Len(buckets) : buckets[j] = <<>>
    THEN [status |-> "ok", objects |-> objects]
    ELSE LET sel == select_object(v, buckets, order, 0)
         IN IF sel.status = "mismatch"
            THEN [status |-> "assert", objects |-> <<>>]
            ELSE IF sel.status = "index"
            THEN [status |-> "index", objects |-> <<>>]
            ELSE LET p == pop_slices(buckets, sel.slices, 0)
                 IN IF ~p.ok THEN [status |-> "index", objects |-> <<>>]
                    ELSE merge_buckets(v, p.buckets, order,
                                       DictSet(objects, sel.slices[1].name,
                                               sel.slices))

\* SliceTable.object_slices on the list v
\* status "value": order.index raised ValueError
object_slices(v, order) ==
    LET f == fill_buckets(v, 1, order, [j \in 1..Len(order) |-> <<>>])
    IN IF ~f.ok THEN [status |-> "value", objects |-> <<>>]
       ELSE merge_buckets(v, [j \in 1..Len(order) |-> sort_by_start(f.buckets[j])],
                          order, <<>>)

---------------------------------------------------------------------------
(* CSV files.  A string that the code formats or parses is a sequence of   *)
(* characters; a name is passed through as it is.  A column is a base and  *)
(* a suffix: f"{section}Start" is [base |-> section, suffix |-> "Start"].  *)

HexBase == 16

HexDigits == <<"0", "1", "2", "3", "4", "5", "6", "7",
               "8", "9", "a", "b", "c", "d", "e", "f">>

UpperDigits == <<"0", "1", "2", "3", "4", "5", "6", "7",
                 "8", "9", "A", "B", "C", "D", "E", "F">>

\* the digits of n >= 0 in base 16
RECURSIVE hex_digits(_)
hex_digits(n) ==
    IF n < HexBase THEN <<HexDigits[n + 1]>>
    ELSE hex_digits(n \div HexBase) \o <<HexDigits[(n % HexBase) + 1]>>

\* hex(n) for n >= 0
hex(n) == <<"0", "x">> \o hex_digits(n)

\* str.strip() of blanks
RECURSIVE strip(_)
strip(str) ==
    IF str = <<>> THEN <<>>
    ELSE IF Head(str) = " " THEN strip(Tail(str))
    ELSE IF str[Len(str)] = " " THEN strip(SubSeq(str, 1, Len(str) - 1))
    ELSE str

\* the value of a hexadecimal digit, or -1
digit_value(c) ==
    IF \E d \in 1..HexBase : HexDigits[d] = c \/ UpperDigits[d] = c
    THEN (CHOOSE d \in 1..HexBase : HexDigits[d] = c \/ UpperDigits[d] = c) - 1
    ELSE -1

\* the value of a sequence of hexadecimal digits after acc, or -1
RECURSIVE digits_value(_, _)
digits_value(str, acc) ==
    IF str = <<>> THEN acc
    ELSE IF digit_value(Head(str)) = -1 THEN -1
    ELSE digits_value(Tail(str), acc * HexBase + digit_value(Head(str)))

\* int(str, 16) for text without a sign: blanks around it and a 0x prefix
\* are accepted; -1 where Python raises ValueError
int16(str) ==
    LET t == strip(str)
        body == IF Len(t) >= 2 /\ t[1] = "0" /\ t[2] \in {"x", "X"}
                THEN SubSeq(t, 3, Len(t)) ELSE t
    IN IF body = <<>> THEN -1 ELSE digits_value(body, 0)

Col(base, suffix) == [base |-> base, suffix |-> suffix]

\* the columns SlicesCSVWriter.__init__ writes as the header
RECURSIVE section_cols(_)
section_cols(sections) ==
    IF sections = <<>> THEN <<>>
    ELSE <<Col(Head(sections), "Start"), Col(Head(sections), "End")>>
             \o section_cols(Tail(sections))

writer_cols(sections) ==
    <<Col("enabled", ""), Col("strip", ""), Col("name", "")>> \o section_cols(sections)

\* the dict entry of SlicesCSVWriter.write as the set of its keys and the
\* value of each: a later slice of the same section overwrites an earlier one
entry_keys(slices) ==
    {Col("name", "")} \cup {Col(t, "") : t \in slices[1].tags}
        \cup {Col(slices[k].section, "Start") : k \in 1..Len(slices)}
        \cup {Col(slices[k].section, "End") : k \in 1..Len(slices)}

entry_value(name, slices, c) ==
    IF c = Col("name", "") THEN name
    ELSE IF c.suffix = "" THEN <<"1">>
    ELSE LET k == CHOOSE k \in 1..Len(slices) :
                      /\ slices[k].section = c.base
                      /\ \A m \in (k + 1)..Len(slices) : slices[m].section # c.base
         IN IF c.suffix = "Start" THEN hex(slices[k].start) ELSE hex(slices[k].stop)

\* SlicesCSVWriter.write : the file after the row of one object; DictWriter
\* raises ValueError for a key that is no column and leaves a column without
\* a key empty
write(f, name, slices) ==
    IF Len(slices) = 0 THEN f
    ELSE IF \E c \in entry_keys(slices) : \A j \in 1..Len(f.header) : f.header[j] # c
    THEN [f EXCEPT !.status = "value"]
    ELSE [f EXCEPT !.rows = Append(@,
              [j \in 1..Len(f.header) |->
                  IF f.header[j] \in entry_keys(slices)
                  THEN entry_value(name, slices, f.header[j])
                  ELSE <<>>])]

\* the loop of ObjectSlices.write_to over the objects
RECURSIVE write_objects(_, _)
write_objects(f, objects) ==
    IF objects = <<>> \/ f.status # "ok" THEN f
    ELSE write_objects(write(f, objects[1].name, objects[1].slices), Tail(objects))

\* ObjectSlices.write_to(file, sections)
write_to(objects, sections) ==
    write_objects([status |-> "ok", header |-> writer_cols(sections), rows |-> <<>>],
                  objects)

\* the sections named by the header fields after "name", pair by pair, or
\* <<"assert">> where an assertion of SlicesCSVReader.__init__ fails
RECURSIVE header_sections(_)
header_sections(fields) ==
    IF fields = <<>> THEN <<>>
    ELSE IF ~(/\ fields[1].suffix = "Start" /\ fields[2].suffix = "End"
              /\ fields[1].base = fields[2].base)
    THEN <<"assert">>
    ELSE LET rest == header_sections(SubSeq(fields, 3, Len(fields)))
         IN IF rest = <<"assert">> THEN rest ELSE <<fields[1].base>> \o rest

\* SlicesCSVReader.__init__ : the number of columns, the tag columns and the
\* sections; status "value" where header.index raises ValueError
reader_init(header) ==
    LET fail(st) == [status |-> st, cols |-> Len(header), tag_idx |-> <<>>,
                     sections |-> <<>>]
    IN IF \A j \in 1..Len(header) : header[j] # Col("name", "")
       THEN fail("value")
       ELSE LET name_idx == (CHOOSE j \in 1..Len(header) :
                                 /\ header[j] = Col("name", "")
                                 /\ \A m \in 1..(j - 1) : header[m] # Col("name", "")) - 1
                section_fields == SubSeq(header, name_idx + 2, Len(header))
            IN IF ~(Len(section_fields) > 0 /\ Len(section_fields) % 2 = 0)
               THEN fail("assert")
               ELSE IF header_sections(section_fields) = <<"assert">>
               THEN fail("assert")
               ELSE [status |-> "ok", cols |-> Len(header),
                     tag_idx |-> [j \in 1..name_idx |-> header[j].base],
                     sections |-> header_sections(section_fields)]

\* the loop of parse_row over the sections from i on; out is what was yielded
\* status: "assert" an assertion failed (stop_str != "", or start <= stop in
\* Slice.__post_init__), "value" int() raised ValueError
RECURSIVE parse_ranges(_, _, _, _, _, _)
parse_ranges(R, ranges, name, flags, i, out) ==
    IF i >= Len(R.sections) THEN [status |-> "ok", slices |-> out]
    ELSE LET start_str == strip(ranges[2 * i + 1])
             stop_str == strip(ranges[2 * i + 2])
         IN IF start_str = <<>>
            THEN parse_ranges(R, ranges, name, flags, i + 1, out)
            ELSE IF stop_str = <<>>
            THEN [status |-> "assert", slices |-> out]
            ELSE IF int16(start_str) = -1 \/ int16(stop_str) = -1
            THEN [status |-> "value", slices |-> out]
            ELSE IF ~(int16(start_str) <= int16(stop_str))
            THEN [status |-> "assert", slices |-> out]
            ELSE parse_ranges(R, ranges, name, flags, i + 1,
                     Append(out, TaggedSlice(int16(start_str), int16(stop_str),
                                             name, R.sections[i + 1], flags)))

\* SlicesCSVReader.parse_row ; out is what the rows before have yielded
parse_row(R, row, out) ==
    IF Len(row) = 0 THEN [status |-> "ok", slices |-> out]
    ELSE IF Len(row) # R.cols THEN [status |-> "assert", slices |-> out]
    ELSE parse_ranges(R,
                      SubSeq(row, Len(R.tag_idx) + 2, Len(row)),
                      row[Len(R.tag_idx) + 1],
                      {R.tag_idx[j] : j \in {m \in 1..Len(R.tag_idx) : row[m] = <<"1">>}},
                      0, out)

\* SlicesCSVReader.__iter__ from the row k on
RECURSIVE parse_rows(_, _, _, _)
parse_rows(R, rows, k, out) ==
    IF k > Len(rows) THEN [status |-> "ok", slices |-> out]
    ELSE LET r == parse_row(R, rows[k], out)
         IN IF r.status # "ok" THEN r ELSE parse_rows(R, rows, k + 1, r.slices)

\* list(SlicesCSVReader(file)) : the slices yielded and how the iteration ended
read_file(f) ==
    LET R == reader_init(f.header)
    IN IF R.status # "ok" THEN [status |-> R.status, slices |-> <<>>]
       ELSE parse_rows(R, f.rows, 1, <<>>)

---------------------------------------------------------------------------
(* State of the model *)

NoTable == [start |-> 0, stop |-> 0, slices |-> <<>>]

NoResult == [status |-> "none", objects |-> <<>>]

NoFile == [status |-> "none", header |-> <<>>, rows |-> <<>>]

NoRead == [status |-> "none", slices |-> <<>>]

Tab(w) == IF w = "table" THEN table ELSE derived

\* the distinct elements of a sequence in the order of their first occurrence
RECURSIVE FirstSeen(_)
FirstSeen(seq) ==
    IF seq = <<>> THEN <<>>
    ELSE LET f == FirstSeen(SubSeq(seq, 1, Len(seq) - 1))
             x == seq[Len(seq)]
         IN IF \E k \in 1..Len(f) : f[k] = x THEN f ELSE Append(f, x)

\* Garbage collection: objects no list refers to are dropped and the others
\* renumbered in list order.  Object ids are never observed by the code, only
\* whether two references are the same object, which renumbering keeps.
Collect(h, tsl, dsl) ==
    LET f == FirstSeen(tsl \o dsl)
        pos(x) == CHOOSE k \in 1..Len(f) : f[k] = x
    IN [heap |-> [k \in 1..Len(f) |-> h[f[k]]],
        t |-> [k \in 1..Len(tsl) |-> pos(tsl[k])],
        d |-> [k \in 1..Len(dsl) |-> pos(dsl[k])]]

\* the table w gets the list sl, the program's heap becomes h
Store(w, h, sl) ==
    LET c == Collect(h, IF w = "table" THEN sl ELSE table.slices,
                        IF w = "derived" THEN sl ELSE derived.slices)
    IN /\ heap' = c.heap
       /\ table' = [table EXCEPT !.slices = c.t]
       /\ derived' = [derived EXCEPT !.slices = c.d]

\* a call and its outcome: op on the table tab with the given arguments;
\* ok says that it returned, status how it ended
Call(op, w, start, stop, name, section, ok) ==
    [op |-> op, tab |-> w, start |-> start, stop |-> stop, name |-> name,
     section |-> section, sections |-> <<>>, addrs |-> <<>>, ok |-> ok,
     status |-> IF ok THEN "ok" ELSE "failed"]

\* a call recorded without its arguments
CallOnly(op, w) == Call(op, w, 0, 0, None, None, TRUE)

Init ==
    /\ heap = <<Slice(TableStart, TableStop, None, None)>>
    /\ table = [start |-> TableStart, stop |-> TableStop, slices |-> <<1>>]
    /\ derived = NoTable
    /\ origin = "none"
    /\ last = Call("init", "table", 0, 0, None, None, TRUE)
    /\ hist = [adds_only |-> TRUE, added |-> {}]
    /\ result = NoResult
    /\ file = NoFile
    /\ read = NoRead

\* table.add(Slice(start, stop, name, section)) on the table w; detail says
\* whether the arguments and the outcome are recorded in last
Add(w, start, stop, name, section, detail) ==
    /\ start <= stop
    /\ LET s == Slice(start, stop, name, section)
           a == Alloc(heap, s)
           r == add(a.heap, Tab(w), a.id)
       IN /\ Store(w, r.heap, r.slices)
          /\ last' = IF detail
                     THEN Call("add", w, start, stop, None, None, r.ok)
                     ELSE CallOnly("add", w)
          /\ hist' = IF w # "table" THEN hist
                     ELSE [hist EXCEPT !.added =
                              IF hist.adds_only /\ r.ok THEN @ \cup {s} ELSE @]
    /\ UNCHANGED <<origin, result, file, read>>

\* table.remove(start, stop) on the table w
Remove(w, start, stop, detail) ==
    /\ start < stop
    /\ LET r == __remove(heap, Tab(w), start, stop)
       IN /\ Store(w, r.heap, r.slices)
          /\ last' = IF detail
                     THEN Call("remove", w, start, stop, None, None, r.ok)
                     ELSE CallOnly("remove", w)
    /\ hist' = IF w # "table" THEN hist
               ELSE [hist EXCEPT !.adds_only = FALSE, !.added = {}]
    /\ UNCHANGED <<origin, result, file, read>>

AddTable ==
    \E start, stop \in Addrs : \E name \in Names :
        Add("table", start, stop, name, None, TRUE)

RemoveTable ==
    \E start, stop \in Addrs : Remove("table", start, stop, TRUE)

Next == AddTable \/ RemoveTable

Spec == Init /\ [][Next]_vars

---------------------------------------------------------------------------
(* Properties of add and remove, checked under Spec *)

TableView == View(heap, table.slices)

TableAddrs == TableStart..(TableStop - 1)

\* the names of the slices of a list that hold an address
NamesAt(v, addr) == {v[k].name : k \in {j \in 1..Len(v) : contains_addr(v[j], addr)}}

Overlap(r, s) == r.start < s.stop /\ s.start < r.stop

Sorted(v) == \A k \in 1..(Len(v) - 1) : v[k].start < v[k + 1].start

Contiguous(v) == \A k \in 1..(Len(v) - 1) : v[k].stop = v[k + 1].start

PositiveLengths(v) == \A k \in 1..Len(v) : v[k].start < v[k].stop

Covers(v, start, stop) ==
    Len(v) > 0 /\ v[1].start = start /\ v[Len(v)].stop = stop

NoAdjacentGaps(v) ==
    \A k \in 1..(Len(v) - 1) : has_name(v[k]) \/ has_name(v[k + 1])

\* C1: after any sequence of add calls of named slices and remove calls on a
\* fresh table the list is sorted by start, every slice has positive length,
\* the list starts at table_start and stops at table_stop, consecutive slices
\* are contiguous, and no two consecutive slices are both unnamed.
C1_PartitionInvariant ==
    /\ Sorted(TableView)
    /\ PositiveLengths(TableView)
    /\ Covers(TableView, table.start, table.stop)
    /\ Contiguous(TableView)
    /\ NoAdjacentGaps(TableView)

\* C2: after remove(start, stop) every table address in [start, stop) lies in
\* an unnamed slice and every other table address keeps the name it had.
C2_RemoveClearsRange ==
    [][last'.op = "remove" =>
         \A addr \in TableAddrs :
             IF last'.start <= addr /\ addr < last'.stop
             THEN NamesAt(TableView', addr) = {None}
             ELSE NamesAt(TableView', addr) = NamesAt(TableView, addr)]_vars

\* a remove strictly inside a named slice left the name on both sides of the gap
C2_Witness ==
    /\ last.op = "remove" /\ last.ok
    /\ \E k \in 1..(Len(TableView) - 2) :
           /\ has_name(TableView[k])
           /\ TableView[k + 2].name = TableView[k].name
           /\ ~has_name(TableView[k + 1])
           /\ TableView[k + 1].start = last.start
           /\ TableView[k + 1].stop = last.stop

\* C3: calling remove(start, stop) a second time leaves the list as the first
\* call left it.
C3_RemoveIdempotent ==
    last.op = "remove" =>
        LET r == __remove(heap, table, last.start, last.stop)
        IN View(r.heap, r.slices) = TableView

\* C4: on a table built by add calls only, add(R) followed by
\* remove(R.start, R.stop) gives back the list as it was before add(R).
C4_AddRemoveInverse ==
    [][(last'.op = "add" /\ last'.ok /\ hist'.adds_only) =>
         LET r == __remove(heap', table', last'.start, last'.stop)
         IN r.ok /\ View(r.heap, r.slices) = TableView]_vars

\* R was added in the middle of a gap, which the remove has to join again
C4_Witness ==
    /\ last.op = "add" /\ last.ok /\ hist.adds_only
    /\ \E k \in 2..(Len(TableView) - 1) :
           /\ TableView[k].start = last.start /\ TableView[k].stop = last.stop
           /\ ~has_name(TableView[k - 1]) /\ ~has_name(TableView[k + 1])

\* the cases in which add(R) has to fail, on a list v
MustReject(v, start, stop) ==
    \/ stop - start = 0
    \/ ~(TableStart <= start /\ stop <= TableStop)
    \/ \E k \in 1..Len(v) :
           /\ contains_addr(v[k], start)
           /\ \/ has_name(v[k])
              \/ ~(v[k].start <= start /\ stop <= v[k].stop)

\* C5: add(R) fails when R has zero length, is not within the table's range,
\* starts inside a named slice or is not enclosed by the slice holding
\* R.start, and a failing add leaves the list as it was.
C5_AddRejects ==
    [][last'.op = "add" =>
         /\ MustReject(TableView, last'.start, last'.stop) => ~last'.ok
         /\ ~last'.ok => TableView' = TableView]_vars

\* an add that starts in a gap and runs into the named slice after it failed
C5_Witness ==
    /\ last.op = "add" /\ ~last.ok
    /\ last.start < last.stop
    /\ TableStart <= last.start /\ last.stop <= TableStop
    /\ \E k \in 1..(Len(TableView) - 1) :
           /\ ~has_name(TableView[k]) /\ contains_addr(TableView[k], last.start)
           /\ last.stop > TableView[k].stop
           /\ has_name(TableView[k + 1])

\* the lists that adding the slices of S to the table T in some order ends
\* with; an order in which an add fails contributes <<"failed">>
RECURSIVE Finals(_, _, _)
Finals(h, T, S) ==
    IF S = {} THEN {View(h, T.slices)}
    ELSE UNION {LET a == Alloc(h, s)
                    r == add(a.heap, T, a.id)
                IN IF r.ok
                   THEN Finals(r.heap, [T EXCEPT !.slices = r.slices], S \ {s})
                   ELSE {<<"failed">>} : s \in S}

Fresh == NewTable(<<>>, TableStart, TableStop)

\* C6: named slices that do not overlap and lie within a fresh table's range
\* can be added in any order: every add succeeds and every order ends with
\* the same list.
C6_AddOrderIndependent ==
    hist.adds_only =>
        /\ Finals(Fresh.heap, Fresh.table, hist.added) = {TableView}
        /\ (last.op = "add" /\ ~last.ok) =>
               \/ last.stop - last.start = 0
               \/ ~(TableStart <= last.start /\ last.stop <= TableStop)
               \/ \E s \in hist.added : Overlap(s, Slice(last.start, last.stop, None, None))

\* three slices were added to a fresh table
C6_Witness ==
    hist.adds_only /\ Cardinality(hist.added) >= 3

\* C16: after any sequence of add and remove calls, add(R) of a slice R of
\* positive length within the table succeeds whenever every address of R lies
\* in unnamed slices: it fails only if R overlaps a named slice.
C16_AddInGapsSucceeds ==
    [][(/\ last'.op = "add"
        /\ last'.start < last'.stop
        /\ TableStart <= last'.start /\ last'.stop <= TableStop
        /\ \A addr \in last'.start..(last'.stop - 1) :
               NamesAt(TableView, addr) = {None}) => last'.ok]_vars

\* the same on tables built by add calls only
C16_AddsOnly ==
    [][(/\ last'.op = "add"
        /\ hist.adds_only
        /\ last'.start < last'.stop
        /\ TableStart <= last'.start /\ last'.stop <= TableStop
        /\ \A addr \in last'.start..(last'.stop - 1) :
               NamesAt(TableView, addr) = {None}) => last'.ok]_vars

---------------------------------------------------------------------------
(* A derived table: slice() and copy(), then one more call on either table *)

SectionsOrder == <<"text", "data">>

\* the section lists passed to set_sections: one or two sections, sorted,
\* not overlapping, inside the table's range, possibly leaving addresses out
SectionLists ==
    LET A == TableStart..TableStop
    IN {<<Section(a, b, SectionsOrder[1])>> : a, b \in A} \cup
       {<<Section(a, b, SectionsOrder[1]), Section(c, d, SectionsOrder[2])>> :
            a, b, c, d \in A}

SortedSections(S) ==
    /\ \A j \in 1..Len(S) : S[j].start < S[j].stop
    /\ \A j \in 1..(Len(S) - 1) : S[j].stop <= S[j + 1].start

\* the program's heap becomes h, table keeps its list and derived becomes D
StoreDerived(h, D) ==
    LET c == Collect(h, table.slices, D.slices)
    IN /\ heap' = c.heap
       /\ table' = [table EXCEPT !.slices = c.t]
       /\ derived' = [D EXCEPT !.slices = c.d]

\* derived = table.slice(start, stop)
MakeSlice(start, stop) ==
    /\ origin = "none"
    /\ LET r == slice(heap, table, start, stop)
       IN /\ StoreDerived(r.heap, IF r.ok THEN r.table ELSE NoTable)
          /\ origin' = IF r.ok THEN "slice" ELSE "none"
          /\ last' = Call("slice", "table", start, stop, None, None, r.ok)
    /\ UNCHANGED <<hist, result, file, read>>

\* derived = copy(table)
MakeCopy ==
    /\ origin = "none"
    /\ LET r == table_copy(heap, table)
       IN StoreDerived(r.heap, r.table)
    /\ origin' = "copy"
    /\ last' = CallOnly("copy", "table")
    /\ UNCHANGED <<hist, result, file, read>>

\* table.set_sections(S) on the table w
SetSections(w, S, detail) ==
    /\ SortedSections(S)
    /\ LET r == set_sections(heap, Tab(w), S)
       IN /\ Store(w, r.heap, r.slices)
          /\ last' = IF detail
                     THEN [CallOnly("set_sections", w) EXCEPT
                               !.sections = S, !.status = r.status,
                               !.ok = (r.status # "assert")]
                     ELSE CallOnly("set_sections", w)
    /\ UNCHANGED <<origin, hist, result, file, read>>

\* the first call after the derived table was made
JustDerived == origin # "none" /\ last.op \in {"slice", "copy"}

BuildAdd ==
    /\ origin = "none"
    /\ \E start, stop \in Addrs : \E name \in Names :
           Add("table", start, stop, name, None, FALSE)

BuildRemove ==
    /\ origin = "none"
    /\ \E start, stop \in Addrs : Remove("table", start, stop, FALSE)

DeriveSlice == \E start, stop \in Addrs : MakeSlice(start, stop)

LaterAdd ==
    /\ JustDerived
    /\ \E w \in {"table", "derived"} : \E start, stop \in Addrs :
           \E name \in Names : Add(w, start, stop, name, None, FALSE)

LaterRemove ==
    /\ JustDerived
    /\ \E w \in {"table", "derived"} : \E start, stop \in Addrs :
           Remove(w, start, stop, FALSE)

LaterSetSections ==
    /\ JustDerived
    /\ \E w \in {"table", "derived"} : \E S \in SectionLists : SetSections(w, S, FALSE)

NextDerived ==
    \/ BuildAdd
    \/ BuildRemove
    \/ DeriveSlice
    \/ MakeCopy
    \/ LaterAdd
    \/ LaterRemove
    \/ LaterSetSections

SpecDerived == Init /\ [][NextDerived]_vars

DerivedView == View(heap, derived.slices)

\* C7: a table made by slice(start, stop) or by copying is independently
\* owned: an add, remove or set_sections on the derived table leaves the
\* source's list (intervals, names, sections) as it was, and one on the
\* source leaves the derived table's list as it was.
C7_DerivedIndependent ==
    [][(origin # "none" /\ last'.op \in {"add", "remove", "set_sections"}) =>
         /\ last'.tab = "derived" => TableView' = TableView
         /\ last'.tab = "table" => DerivedView' = DerivedView]_vars

\* the part of C7 that is about copy(): only the derivation differs
C7_CopyIndependent ==
    [][(origin = "copy" /\ last'.op \in {"add", "remove", "set_sections"}) =>
         /\ last'.tab = "derived" => TableView' = TableView
         /\ last'.tab = "table" => DerivedView' = DerivedView]_vars

\* the partition invariants of a list over [start, stop)
Partition(v, start, stop) ==
    /\ Sorted(v)
    /\ PositiveLengths(v)
    /\ Covers(v, start, stop)
    /\ Contiguous(v)
    /\ NoAdjacentGaps(v)

\* slice(start, stop) has just returned
Sliced == last.op = "slice" /\ last.ok

\* start or stop lies strictly inside the slice s
CutsThrough(s, start, stop) ==
    \/ s.start < start /\ start < s.stop
    \/ s.start < stop /\ stop < s.stop

\* C13: when slice(start, stop) cuts through a named slice (start or stop
\* lies strictly inside it), the piece of that slice in the returned table is
\* unnamed.
C13_TruncatedUnnamed ==
    Sliced =>
        \A k \in 1..Len(TableView) :
            (has_name(TableView[k]) /\ CutsThrough(TableView[k], last.start, last.stop)) =>
                \A m \in 1..Len(DerivedView) :
                    Overlap(DerivedView[m], TableView[k]) => ~has_name(DerivedView[m])

\* what C14 says of slice(start, stop) on a list that satisfies the partition
\* invariants
SliceTiles ==
    IF \E k \in 1..Len(TableView) : contains_addr(TableView[k], last.start)
    THEN /\ last.ok
         /\ Partition(DerivedView, last.start, last.stop)
         /\ \A k \in 1..Len(TableView) :
                (last.start <= TableView[k].start /\ TableView[k].stop <= last.stop) =>
                    \E m \in 1..Len(DerivedView) :
                        /\ DerivedView[m].start = TableView[k].start
                        /\ DerivedView[m].stop = TableView[k].stop
                        /\ DerivedView[m].name = TableView[k].name
    ELSE ~last.ok

\* C14: on a table that satisfies the partition invariants, slice(start, stop)
\* with start < stop and start inside the table returns a table whose slices
\* tile [start, stop) and satisfy the partition invariants, and in which every
\* source slice lying within [start, stop) appears with its interval and name;
\* with start outside the table the call fails.
C14_SlicePartition ==
    (last.op = "slice" /\ last.start < last.stop
        /\ Partition(TableView, table.start, table.stop)) => SliceTiles

\* the same for ranges that stop inside the table
C14_WithinTable ==
    (last.op = "slice" /\ last.start < last.stop /\ last.stop <= table.stop
        /\ Partition(TableView, table.start, table.stop)) => SliceTiles

---------------------------------------------------------------------------
(* Section assignment on a table built by add and remove *)

SectionsAdd == last.op # "set_sections" /\ AddTable

SectionsRemove == last.op # "set_sections" /\ RemoveTable

SetSectionsTable ==
    /\ last.op # "set_sections"
    /\ \E S \in SectionLists : SetSections("table", S, TRUE)

NextSections == SectionsAdd \/ SectionsRemove \/ SetSectionsTable

SpecSections == Init /\ [][NextSections]_vars

\* the slice s crosses a boundary of a section of S: it shares addresses
\* with the section and is not contained in it
Crosses(s, S) ==
    \E j \in 1..Len(S) :
        /\ Overlap(s, S[j])
        /\ ~(S[j].start <= s.start /\ s.stop <= S[j].stop)

\* C10: set_sections fails whenever a named slice crosses a section boundary
\* (starts before the start or ends after the stop of a section it reaches
\* into), and section assignment never splits or truncates a named slice.
C10_NamedNeverCrosses ==
    [][last'.op = "set_sections" =>
         /\ (\E k \in 1..Len(TableView) :
                 has_name(TableView[k]) /\ Crosses(TableView[k], last'.sections))
                => last'.status = "assert"
         /\ \A k \in 1..Len(TableView) :
                has_name(TableView[k]) =>
                    \E m \in 1..Len(TableView') :
                        /\ TableView'[m].start = TableView[k].start
                        /\ TableView'[m].stop = TableView[k].stop
                        /\ TableView'[m].name = TableView[k].name]_vars

\* the same for section lists that tile the table's range
TilesTable(S) ==
    /\ S[1].start = TableStart /\ S[Len(S)].stop = TableStop
    /\ \A j \in 1..(Len(S) - 1) : S[j].stop = S[j + 1].start

C10_WhenTiled ==
    [][(last'.op = "set_sections" /\ TilesTable(last'.sections)) =>
         /\ (\E k \in 1..Len(TableView) :
                 has_name(TableView[k]) /\ Crosses(TableView[k], last'.sections))
                => last'.status = "assert"
         /\ \A k \in 1..Len(TableView) :
                has_name(TableView[k]) =>
                    \E m \in 1..Len(TableView') :
                        /\ TableView'[m].start = TableView[k].start
                        /\ TableView'[m].stop = TableView[k].stop
                        /\ TableView'[m].name = TableView[k].name]_vars

\* the slices of a list tile [start, stop): sorted, contiguous, of positive
\* length, from start to stop
Tiling(v, start, stop) ==
    /\ Sorted(v)
    /\ PositiveLengths(v)
    /\ Covers(v, start, stop)
    /\ Contiguous(v)

\* the named slices of v, as intervals with a name
NamedIntervals(v) ==
    {<<v[k].start, v[k].stop, v[k].name>> : k \in {j \in 1..Len(v) : has_name(v[j])}}

\* C17: a set_sections call that returns, on a sorted list of sections that
\* do not overlap (with or without addresses left out between them), leaves
\* the slices tiling [table_start, table_stop), each of positive length, and
\* changes the interval of no named slice.
C17_SectionsKeepTiling ==
    [][(/\ last'.op = "set_sections" /\ last'.ok
        /\ Tiling(TableView, table.start, table.stop)) =>
            /\ Tiling(TableView', table.start, table.stop)
            /\ NamedIntervals(TableView') = NamedIntervals(TableView)]_vars

\* the same for section lists that tile the table's range
C17_WhenTiled ==
    [][(/\ last'.op = "set_sections" /\ last'.ok
        /\ TilesTable(last'.sections)
        /\ Tiling(TableView, table.start, table.stop)) =>
            /\ Tiling(TableView', table.start, table.stop)
            /\ NamedIntervals(TableView') = NamedIntervals(TableView)]_vars

\* the slice s lies inside a section of S and carries that section's name
InLabelledSection(s, S) ==
    \E j \in 1..Len(S) :
        /\ S[j].start <= s.start /\ s.stop <= S[j].stop
        /\ s.section = S[j].name

\* C18: when the sections are sorted and tile the table's range and no named
\* slice crosses a section boundary, set_sections returns with every slice
\* inside one section and labelled with that section's name; unnamed slices
\* that straddled a boundary are split there, and every slice keeps its name.
C18_SectionsAssigned ==
    [][(/\ last'.op = "set_sections"
        /\ TilesTable(last'.sections)
        /\ ~\E k \in 1..Len(TableView) :
               has_name(TableView[k]) /\ Crosses(TableView[k], last'.sections)) =>
            /\ last'.status = "ok"
            /\ \A m \in 1..Len(TableView') :
                   InLabelledSection(TableView'[m], last'.sections)
            /\ \A addr \in TableAddrs :
                   NamesAt(TableView', addr) = NamesAt(TableView, addr)
            /\ NamedIntervals(TableView') = NamedIntervals(TableView)]_vars

\* two sections were assigned to a table built by add calls: a gap that
\* reached over the boundary was split there, next to a named slice
C18_Witness ==
    /\ last.op = "set_sections" /\ last.status = "ok"
    /\ hist.adds_only
    /\ TilesTable(last.sections)
    /\ \E k \in 1..(Len(TableView) - 1) :
           /\ ~has_name(TableView[k]) /\ ~has_name(TableView[k + 1])
           /\ TableView[k].section = SectionsOrder[1]
           /\ TableView[k + 1].section = SectionsOrder[2]
    /\ \E k \in 1..Len(TableView) : has_name(TableView[k])

---------------------------------------------------------------------------
(* The object reconciler on a table of slices that carry section labels *)

\* the table of this specification is one address longer, so that two objects
\* can have a slice in each of two sections
ObjectsStop == TableStop + 1

ObjectsInit ==
    /\ heap = <<Slice(TableStart, ObjectsStop, None, None)>>
    /\ table = [start |-> TableStart, stop |-> ObjectsStop, slices |-> <<1>>]
    /\ derived = NoTable
    /\ origin = "none"
    /\ last = CallOnly("init", "table")
    /\ hist = [adds_only |-> TRUE, added |-> {}]
    /\ result = NoResult
    /\ file = NoFile
    /\ read = NoRead

SectionLabels == {SectionsOrder[j] : j \in 1..Len(SectionsOrder)}

\* table.add of a slice as the CSV reader makes it: named, with a section
ObjectsAdd ==
    /\ last.op # "object_slices"
    /\ \E start, stop \in TableStart..ObjectsStop : \E name \in Names :
           \E section \in SectionLabels :
               Add("table", start, stop, name, section, FALSE)

\* result = table.object_slices(order)
ObjectSlices ==
    /\ last.op # "object_slices"
    /\ result' = object_slices(TableView, SectionsOrder)
    /\ last' = CallOnly("object_slices", "table")
    /\ UNCHANGED <<heap, table, derived, origin, hist, file, read>>

NextObjects == ObjectsAdd \/ ObjectSlices

SpecObjects == ObjectsInit /\ [][NextObjects]_vars

\* the list indexes of the slices of object name in a section
SlicesOf(v, name, section) ==
    {k \in 1..Len(v) : v[k].name = name /\ v[k].section = section}

\* object A has slices in section X, so has B, and A's come before B's
Precedes(v, A, B, X) ==
    /\ SlicesOf(v, A, X) # {} /\ SlicesOf(v, B, X) # {}
    /\ \A a \in SlicesOf(v, A, X) : \A b \in SlicesOf(v, B, X) :
           v[a].start < v[b].start

Unsatisfiable(v) ==
    \E A, B \in Names : \E X, Y \in SectionLabels :
        A # B /\ X # Y /\ Precedes(v, A, B, X) /\ Precedes(v, B, A, Y)

\* no name occurs twice in a section
WellLabelled(v) ==
    \A n \in Names : \A X \in SectionLabels : Cardinality(SlicesOf(v, n, X)) <= 1

\* C8: object_slices fails, returning no grouping, whenever two objects A and
\* B both occupy two sections X and Y with A's slice before B's in X and B's
\* before A's in Y; the failure is the merge assertion when no name occurs
\* twice in a section.
C8_UnsatisfiableFails ==
    (last.op = "object_slices" /\ Unsatisfiable(TableView)) =>
        /\ result.status # "ok"
        /\ result.objects = <<>>
        /\ WellLabelled(TableView) => result.status = "assert"

\* object_slices was called on a table with a and b crossed over two sections
C8_Witness ==
    /\ last.op = "object_slices"
    /\ Unsatisfiable(TableView)
    /\ WellLabelled(TableView)
    /\ result.status = "assert"

\* the named slices of the list with a name, in the order of the sections
RECURSIVE InSectionOrder(_, _, _)
InSectionOrder(v, name, j) ==
    IF j > Len(SectionsOrder) THEN <<>>
    ELSE LET ks == SlicesOf(v, name, SectionsOrder[j])
         IN (IF ks = {} THEN <<>> ELSE <<v[CHOOSE k \in ks : TRUE]>>)
            \o InSectionOrder(v, name, j + 1)

\* C9: when object_slices returns, every named slice of the table is in
\* exactly one output list, and the list of each name holds exactly the
\* table's slices of that name, one per section, in the order of the sections.
C9_GroupingComplete ==
    (last.op = "object_slices" /\ result.status = "ok") =>
        /\ \A k \in 1..Len(TableView) :
               has_name(TableView[k]) =>
                   Cardinality({<<o, m>> \in
                                  (1..Len(result.objects)) \X (1..Len(TableView)) :
                                    /\ m <= Len(result.objects[o].slices)
                                    /\ result.objects[o].slices[m] = TableView[k]}) = 1
        /\ \A o \in 1..Len(result.objects) :
               /\ result.objects[o].slices =
                      InSectionOrder(TableView, result.objects[o].name, 1)
               /\ \A k \in 1..Len(TableView) :
                      TableView[k].name = result.objects[o].name =>
                          \E m \in 1..Len(result.objects[o].slices) :
                              result.objects[o].slices[m] = TableView[k]

\* the same for tables in which no name occurs twice in a section
C9_WhenWellLabelled ==
    (last.op = "object_slices" /\ result.status = "ok" /\ WellLabelled(TableView)) =>
        /\ \A k \in 1..Len(TableView) :
               has_name(TableView[k]) =>
                   Cardinality({<<o, m>> \in
                                  (1..Len(result.objects)) \X (1..Len(TableView)) :
                                    /\ m <= Len(result.objects[o].slices)
                                    /\ result.objects[o].slices[m] = TableView[k]}) = 1
        /\ \A o \in 1..Len(result.objects) :
               result.objects[o].slices =
                   InSectionOrder(TableView, result.objects[o].name, 1)

\* the address-ordered stream of each section: its named slices by start
Streams(v) ==
    [j \in 1..Len(SectionsOrder) |->
        sort_by_start(SelectSeq(v, LAMBDA s : has_name(s) /\ s.section = SectionsOrder[j]))]

ObjectNames(v) == {v[k].name : k \in {j \in 1..Len(v) : has_name(v[j])}}

\* there is a total order of the objects under which every section's stream
\* is ascending
Satisfiable(v) ==
    \E rank \in [ObjectNames(v) -> 1..Cardinality(ObjectNames(v))] :
        /\ \A n, m \in ObjectNames(v) : n # m => rank[n] # rank[m]
        /\ \A j \in 1..Len(SectionsOrder) :
               \A p, q \in 1..Len(Streams(v)[j]) :
                   p < q => rank[Streams(v)[j][p].name] < rank[Streams(v)[j][q].name]

\* the objects that are ready: at the front of every stream they are in
ReadyNames(B) ==
    {n \in Names :
        /\ \E j \in 1..Len(B) : B[j] # <<>> /\ B[j][1].name = n
        /\ \A j \in 1..Len(B) :
               (\E p \in 1..Len(B[j]) : B[j][p].name = n) => B[j][1].name = n}

PopName(B, n) ==
    [j \in 1..Len(B) |-> IF B[j] # <<>> /\ B[j][1].name = n THEN Tail(B[j]) ELSE B[j]]

\* front matching empties the streams whichever ready object is taken
RECURSIVE NeverStuck(_)
NeverStuck(B) ==
    IF \A j \in 1..Len(B) : B[j] = <<>> THEN TRUE
    ELSE /\ ReadyNames(B) # {}
         /\ \A n \in ReadyNames(B) : NeverStuck(PopName(B, n))

\* the number of slices in the grouping returned
RECURSIVE GroupedCount(_)
GroupedCount(objects) ==
    IF objects = <<>> THEN 0
    ELSE Len(objects[1].slices) + GroupedCount(Tail(objects))

\* C15: on a table in which no name occurs twice in a section, object_slices
\* fails only when the input is unsatisfiable: when a total order of the
\* objects exists under which every section's stream is ascending, the front
\* matching never gets stuck, whichever ready object is taken, and
\* object_slices empties every bucket and returns a grouping.
C15_SatisfiableSucceeds ==
    (last.op = "object_slices" /\ WellLabelled(TableView) /\ Satisfiable(TableView)) =>
        /\ result.status = "ok"
        /\ GroupedCount(result.objects) = Cardinality(NamedIntervals(TableView))
        /\ NeverStuck(Streams(TableView))

\* two objects were grouped, and the front of the first section's stream was
\* not ready at the first step
C15_Witness ==
    /\ last.op = "object_slices" /\ result.status = "ok"
    /\ WellLabelled(TableView) /\ Satisfiable(TableView)
    /\ Len(result.objects) = 2
    /\ Streams(TableView)[1] # <<>>
    /\ result.objects[1].name # Streams(TableView)[1][1].name

---------------------------------------------------------------------------
(* find_parent on a table built by add and remove *)

FindAdd ==
    /\ last.op # "find_parent"
    /\ \E start, stop \in Addrs : \E name \in Names :
           Add("table", start, stop, name, None, FALSE)

FindRemove ==
    /\ last.op # "find_parent"
    /\ \E start, stop \in Addrs : Remove("table", start, stop, FALSE)

\* result = table.find_parent(Slice(start, stop))
FindParent ==
    /\ last.op # "find_parent"
    /\ \E start, stop \in Addrs :
           /\ start <= stop
           /\ LET id == find_parent(heap, table, Slice(start, stop, None, None))
              IN result' = IF id = -1 THEN [status |-> "None", objects |-> <<>>]
                           ELSE [status |-> "found", objects |-> <<heap[id]>>]
           /\ last' = Call("find_parent", "table", start, stop, None, None, TRUE)
    /\ UNCHANGED <<heap, table, derived, origin, hist, file, read>>

NextFind == FindAdd \/ FindRemove \/ FindParent

SpecFind == Init /\ [][NextFind]_vars

\* the slice R = [last.start, last.stop) passed to find_parent
FindArg == Slice(last.start, last.stop, None, None)

\* C19: for every slice R within the table's range find_parent(R) returns a
\* slice of the table whose interval contains R, and it never returns a slice
\* that does not contain R.
C19_FindParentContains ==
    (last.op = "find_parent" /\ last.start < last.stop /\ in_table(table, FindArg)) =>
        /\ result.status = "found"
        /\ \E k \in 1..Len(TableView) : TableView[k] = result.objects[1]
        /\ contains_slice(result.objects[1], FindArg)

\* what holds of find_parent: when a slice of the table starts where R starts,
\* that slice is returned
C19_SameStart ==
    (last.op = "find_parent" /\ Sorted(TableView)) =>
        \A k \in 1..Len(TableView) :
            TableView[k].start = last.start =>
                result.status = "found" /\ result.objects[1] = TableView[k]

---------------------------------------------------------------------------
(* filter on a table built by add and remove *)

FilterAdd ==
    /\ last.op # "filter"
    /\ \E start, stop \in Addrs : \E name \in Names :
           Add("table", start, stop, name, None, FALSE)

FilterRemove ==
    /\ last.op # "filter"
    /\ \E start, stop \in Addrs : Remove("table", start, stop, FALSE)

\* the slices of the table, as a set
SliceSet == {TableView[k] : k \in 1..Len(TableView)}

\* derived = table.filter(filter_func), filter_func accepting the slices of P;
\* result.objects lists the table's slices that filter_func accepts
Filter ==
    /\ last.op # "filter"
    /\ \E P \in SUBSET SliceSet :
           LET r == filter(heap, table, P)
           IN /\ StoreDerived(r.heap, IF r.ok THEN r.table ELSE NoTable)
              /\ origin' = IF r.ok THEN "filter" ELSE "none"
              /\ last' = Call("filter", "table", 0, 0, None, None, r.ok)
              /\ result' = [status |-> "filter",
                            objects |-> SelectSeq(TableView, LAMBDA s : s \in P)]
    /\ UNCHANGED <<hist, file, read>>

NextFilter == FilterAdd \/ FilterRemove \/ Filter

SpecFilter == Init /\ [][NextFilter]_vars

\* C20: on a table that satisfies the partition invariants, filter(predicate)
\* returns a table over the same range whose named slices are exactly the
\* source's named slices that satisfy the predicate, everything else being
\* gaps; the result satisfies the partition invariants and the source's list
\* is unchanged.
C20_FilterKeepsAccepted ==
    [][(last'.op = "filter" /\ Partition(TableView, table.start, table.stop)) =>
         /\ last'.ok
         /\ derived'.start = table.start /\ derived'.stop = table.stop
         /\ NamedIntervals(DerivedView') = NamedIntervals(result'.objects)
         /\ Partition(DerivedView', table.start, table.stop)
         /\ TableView' = TableView]_vars

\* a filter kept one named slice and dropped another, and the result has
\* fewer slices than the source
C20_Witness ==
    /\ last.op = "filter" /\ last.ok
    /\ Partition(TableView, table.start, table.stop)
    /\ NamedIntervals(result.objects) # {}
    /\ NamedIntervals(result.objects) # NamedIntervals(TableView)
    /\ Len(DerivedView) < Len(TableView)

---------------------------------------------------------------------------
(* Writing the object groupings of a table to a CSV file and reading it back *)

\* the table of this specification starts below HexBase, so that addresses
\* with one and with two hexadecimal digits are written
CsvStart == HexBase - 1

CsvStop == CsvStart + TableSize

TagSets == {{}, {"enabled"}, {"debug"}}

CsvInit ==
    /\ heap = <<Slice(CsvStart, CsvStop, None, None)>>
    /\ table = [start |-> CsvStart, stop |-> CsvStop, slices |-> <<1>>]
    /\ derived = NoTable
    /\ origin = "none"
    /\ last = CallOnly("init", "table")
    /\ hist = [adds_only |-> TRUE, added |-> {}]
    /\ result = NoResult
    /\ file = NoFile
    /\ read = NoRead

\* table.add(Slice(start, stop, name, section, tags))
CsvAdd ==
    /\ last.op \in {"init", "add"}
    /\ \E start, stop \in CsvStart..CsvStop : \E name \in Names :
           \E section \in SectionLabels : \E tags \in TagSets :
               /\ start <= stop
               /\ LET a == Alloc(heap, TaggedSlice(start, stop, name, section, tags))
                      r == add(a.heap, table, a.id)
                  IN Store("table", r.heap, r.slices)
    /\ last' = CallOnly("add", "table")
    /\ UNCHANGED <<origin, hist, result, file, read>>

\* result = table.object_slices(order)
CsvObjectSlices ==
    /\ last.op \in {"init", "add"}
    /\ result' = object_slices(TableView, SectionsOrder)
    /\ last' = CallOnly("object_slices", "table")
    /\ UNCHANGED <<heap, table, derived, origin, hist, file, read>>

\* result.write_to(file, order)
CsvWriteTo ==
    /\ last.op = "object_slices" /\ result.status = "ok"
    /\ file' = write_to(result.objects, SectionsOrder)
    /\ last' = CallOnly("write_to", "table")
    /\ UNCHANGED <<heap, table, derived, origin, hist, result, read>>

\* read = list(SlicesCSVReader(file))
CsvRead ==
    /\ last.op = "write_to"
    /\ read' = read_file(file)
    /\ last' = CallOnly("read", "table")
    /\ UNCHANGED <<heap, table, derived, origin, hist, result, file>>

NextCsv == CsvAdd \/ CsvObjectSlices \/ CsvWriteTo \/ CsvRead

SpecCsv == CsvInit /\ [][NextCsv]_vars

\* the slices of a grouping, as a set
RECURSIVE GroupedSlices(_)
GroupedSlices(objects) ==
    IF objects = <<>> THEN {}
    ELSE {objects[1].slices[k] : k \in 1..Len(objects[1].slices)}
             \cup GroupedSlices(Tail(objects))

ReadSlices == {read.slices[k] : k \in 1..Len(read.slices)}

\* C11: reading back what write_to wrote yields, for every named slice that
\* was written, a slice with the same start, stop, name, section and tags,
\* and no other slice.
C11_RoundTrip ==
    (last.op = "read" /\ file.status = "ok") =>
        /\ read.status = "ok"
        /\ ReadSlices = GroupedSlices(result.objects)
        /\ Len(read.slices) = GroupedCount(result.objects)

\* the same for groupings in which the slices of an object carry the same tags
SameTags(objects) ==
    \A o \in 1..Len(objects) : \A k \in 1..Len(objects[o].slices) :
        objects[o].slices[k].tags = objects[o].slices[1].tags

C11_WhenSameTags ==
    (last.op = "read" /\ file.status = "ok" /\ SameTags(result.objects)) =>
        /\ read.status = "ok"
        /\ ReadSlices = GroupedSlices(result.objects)
        /\ Len(read.slices) = GroupedCount(result.objects)

---------------------------------------------------------------------------
(* Reading a CSV file that was written by hand *)

\* the rows of the files read: a row has the columns of the writer's header;
\* a tag field is empty or "1", an address field is empty or an address in
\* hexadecimal, with or without blanks around it
ReaderRows ==
    {<<enabled, <<>>, name, textStart, textEnd, dataStart, dataEnd>> :
        enabled \in {<<>>, <<"1">>}, name \in Names,
        textStart \in {<<>>, hex(CsvStart)},
        textEnd \in {<<>>, hex(CsvStart + 1)},
        dataStart \in {<<>>, <<" ">> \o hex(CsvStart + 1)},
        dataEnd \in {<<>>, hex(CsvStart + 2) \o <<" ">>}}

ReaderFiles ==
    {[status |-> "ok", header |-> writer_cols(SectionsOrder), rows |-> rows] :
        rows \in {<<r>> : r \in ReaderRows} \cup (ReaderRows \X ReaderRows)}

ReaderInit ==
    /\ heap = <<Slice(CsvStart, CsvStop, None, None)>>
    /\ table = [start |-> CsvStart, stop |-> CsvStop, slices |-> <<1>>]
    /\ derived = NoTable
    /\ origin = "none"
    /\ last = CallOnly("init", "table")
    /\ hist = [adds_only |-> TRUE, added |-> {}]
    /\ result = NoResult
    /\ file \in ReaderFiles
    /\ read = NoRead

\* read = list(SlicesCSVReader(file))
ReadFile ==
    /\ last.op = "init"
    /\ read' = read_file(file)
    /\ last' = CallOnly("read", "table")
    /\ UNCHANGED <<heap, table, derived, origin, hist, result, file>>

NextReader == ReadFile

SpecReader == ReaderInit /\ [][NextReader]_vars

\* the entries of the file: a row and a section of it
Entries == (1..Len(file.rows)) \X (1..Len(SectionsOrder))

StartField(e) == strip(file.rows[e[1]][2 * e[2] + 2])

StopField(e) == strip(file.rows[e[1]][2 * e[2] + 3])

\* an entry with a start address and an empty stop address
Partial(e) == StartField(e) # <<>> /\ StopField(e) = <<>>

Complete(e) == StartField(e) # <<>> /\ StopField(e) # <<>>

\* the slice a complete entry stands for
EntrySlice(e) ==
    TaggedSlice(int16(StartField(e)), int16(StopField(e)), file.rows[e[1]][3],
                SectionsOrder[e[2]],
                IF file.rows[e[1]][1] = <<"1">> THEN {"enabled"} ELSE {})

\* C12: when a row has a start address and an empty stop address for a
\* section, the reader skips that entry only: reading does not abort, no
\* slice is produced for the entry, and the other entries of the row and of
\* the rows after it are parsed.
C12_PartialSkipped ==
    (last.op = "read" /\ \E e \in Entries : Partial(e)) =>
        /\ read.status = "ok"
        /\ ReadSlices = {EntrySlice(e) : e \in {x \in Entries : Complete(x)}}
        /\ Len(read.slices) = Cardinality({x \in Entries : Complete(x)})

\* what holds: a file without such an entry is read in full
C12_NoPartial ==
    (last.op = "read" /\ ~\E e \in Entries : Partial(e)) =>
        /\ read.status = "ok"
        /\ ReadSlices = {EntrySlice(e) : e \in {x \in Entries : Complete(x)}}
        /\ Len(read.slices) = Cardinality({x \in Entries : Complete(x)})

---------------------------------------------------------------------------
(* Slice.split on a slice and a collection of cut addresses *)

MaxCuts == 2

\* the collections of cut addresses: unsorted, with duplicates, with
\* addresses outside the slice and at its bounds
CutLists == UNION {[1..n -> Addrs] : n \in 0..MaxCuts}

\* the slices split: unnamed and bare, or named with a section and a tag
SplitSlices ==
    {TaggedSlice(start, stop, None, None, {}) : start, stop \in Addrs} \cup
    {TaggedSlice(start, stop, "a", SectionsOrder[1], {"enabled"}) : start, stop \in Addrs}

\* a slice and the addresses to cut it at; Slice.__post_init__ has checked
\* start <= stop
SplitInit ==
    /\ \E s \in SplitSlices : s.start <= s.stop /\ heap = <<s>>
    /\ table = NoTable
    /\ derived = NoTable
    /\ origin = "none"
    /\ \E addrs \in CutLists :
           last = [CallOnly("init", "table") EXCEPT !.addrs = addrs]
    /\ hist = [adds_only |-> TRUE, added |-> {}]
    /\ result = NoResult
    /\ file = NoFile
    /\ read = NoRead

\* read = list(heap[1].split(last.addrs)); the heap keeps the slice and the
\* slices yielded
Split ==
    /\ last.op = "init"
    /\ LET r == split(heap, 1, last.addrs)
       IN /\ heap' = <<r.heap[1]>> \o [k \in 1..Len(r.out) |-> r.heap[r.out[k]]]
          /\ read' = [status |-> r.status,
                      slices |-> [k \in 1..Len(r.out) |-> r.heap[r.out[k]]]]
    /\ last' = [Call("split", "table", heap[1].start, heap[1].stop, None, None, TRUE)
                   EXCEPT !.addrs = last.addrs]
    /\ UNCHANGED <<table, derived, origin, hist, result, file>>

NextSplit == Split

SpecSplit == SplitInit /\ [][NextSplit]_vars

\* the cut addresses strictly inside (start, stop)
InnerCuts ==
    {last.addrs[k] : k \in {j \in 1..Len(last.addrs) :
                               last.start < last.addrs[j] /\ last.addrs[j] < last.stop}}

\* C21: for any slice [start, stop) and any collection of cut addresses,
\* Slice.split yields sub-slices of positive length in ascending order that
\* tile [start, stop), whose inner boundaries are the distinct cut addresses
\* strictly inside (start, stop), each with the original name, section and
\* tags; the bounds of the original slice are unchanged.
C21_SplitTiles ==
    [][last'.op = "split" =>
         /\ read'.status = "ok"
         /\ PositiveLengths(read'.slices)
         /\ Sorted(read'.slices)
         /\ Contiguous(read'.slices)
         /\ IF heap[1].start < heap[1].stop
            THEN Covers(read'.slices, heap[1].start, heap[1].stop)
            ELSE read'.slices = <<>>
         /\ {read'.slices[k].start : k \in 2..Len(read'.slices)} = InnerCuts'
         /\ \A k \in 1..Len(read'.slices) :
                /\ read'.slices[k].name = heap[1].name
                /\ read'.slices[k].section = heap[1].section
                /\ read'.slices[k].tags = heap[1].tags
         /\ heap'[1] = heap[1]]_vars

\* a named slice was cut at two addresses inside it, given in descending order
C21_Witness ==
    /\ last.op = "split" /\ read.status = "ok"
    /\ Len(last.addrs) = 2
    /\ last.addrs[1] > last.addrs[2]
    /\ InnerCuts = {last.addrs[1], last.addrs[2]}
    /\ Len(read.slices) = 3
    /\ has_name(heap[1])

====
